---- MODULE Spec2Model ----
(***************************************************************************)
(* A model of evil_mount (src/src/main.rs): a daemon that initialises one  *)
(* of two directory trees from the other and then keeps the backup tree a  *)
(* mirror of the work tree with three kinds of tokio task: the Supervisor  *)
(* (copy_files), one watcher per file (spawn_sync_task) and the Deletion   *)
(* Reconciler (delete_files).                                              *)
(*                                                                         *)
(* Granularity: every awaited file-system call of a spawned task is one    *)
(* atomic step, and the tasks interleave freely between them (the runtime  *)
(* of #[tokio::main] is multi-threaded).  main's start-up runs before any  *)
(* task exists, so each of its loop iterations is one step.                *)
(*                                                                         *)
(* Paths are sequences of components, as std::path compares them; an       *)
(* absolute path starts with the root component "/".  Modification times   *)
(* are whole seconds (as_secs) read from a bounded clock.                  *)
(***************************************************************************)
EXTENDS Integers, Sequences, FiniteSets, TLC

VARIABLES
    fs,               \* the file system: path -> entry
    clock,            \* the wall clock, in seconds
    mainpc,           \* where main() is
    source_of_truth,  \* main's source_of_truth (<<>> before it is chosen)
    dir_to_init,      \* main's dir_to_init (<<>> before it is chosen)
    initq,            \* files of recursive_dir(source_of_truth) still to copy
    SHOULD_SHUTDOWN,  \* the static AtomicBool
    recpc,            \* where delete_files is
    reclist,          \* entries of its recursive_dir walk not yet visited
    reccur,           \* its file_info.path()
    suppc,            \* where copy_files is
    suplist,          \* entries of its recursive_dir walk not yet visited
    supcur,           \* its file_info.path()
    handles,          \* copy_files' HashMap: work path -> task (0: no entry)
    tasks,            \* the spawned spawn_sync_task futures, by task slot
    envBudget,        \* how many more changes the environment may make
    wrote,            \* history: the roots under which the program changed something
    recAfterFlag,     \* history: the Reconciler's scan began with the flag set
    delphase,         \* history: per work file, the Reconciler's progress since its deletion
    tr                \* the Path Translator's harness: input, direction and results

vars == <<fs, clock, mainpc, source_of_truth, dir_to_init, initq, SHOULD_SHUTDOWN,
          recpc, reclist, reccur, suppc, suplist, supcur, handles, tasks,
          envBudget, wrote, recAfterFlag, delphase, tr>>

sysvars == <<fs, clock, mainpc, source_of_truth, dir_to_init, initq, SHOULD_SHUTDOWN,
             recpc, reclist, reccur, suppc, suplist, supcur, handles, tasks,
             envBudget, wrote, recAfterFlag, delphase>>

(***************************************************************************)
(* Bounds                                                                  *)
(***************************************************************************)
\* The seconds that pass in one run.
MaxTicks == 1
\* The changes the environment makes to the work tree in one run.
EnvBudget == 1
\* Task slots of the runtime.
MaxTasks == 2
\* File contents are 1..MaxContent.
MaxContent == 2
\* The clock at start-up; the files found at start-up carry times 1..InitClock.
InitClock == 2
MaxClock == InitClock + MaxTicks

Contents == 1..MaxContent

(***************************************************************************)
(* Paths (std::path::PathBuf)                                              *)
(***************************************************************************)
RootComp == "/"
WorkRoot == <<RootComp, "work">>
BackupRoot == <<RootComp, "backup">>
Roots == {WorkRoot, BackupRoot}
NoPath == <<>>

\* The relative paths of the model's trees: a top-level file, a directory and a
\* file in it.
RelFiles == {<<"a">>, <<"d", "b">>}
RelDirs == {<<"d">>}

FilePaths(root) == {root \o r : r \in RelFiles}
DirPaths(root) == {root \o r : r \in RelDirs}
AllFiles == FilePaths(WorkRoot) \cup FilePaths(BackupRoot)
AllDirs == DirPaths(WorkRoot) \cup DirPaths(BackupRoot)
AllPaths == AllFiles \cup AllDirs

is_absolute(p) == Len(p) > 0 /\ p[1] = RootComp

starts_with(p, base) ==
    /\ Len(base) <= Len(p)
    /\ \A i \in 1..Len(base) : p[i] = base[i]

Ok(p) == [ok |-> TRUE, path |-> p]
StripPrefixError == [ok |-> FALSE, path |-> NoPath]

\* Path::strip_prefix: the components after base, or an error when base is no
\* prefix of p.
strip_prefix(p, base) ==
    IF starts_with(p, base)
    THEN Ok(SubSeq(p, Len(base) + 1, Len(p)))
    ELSE StripPrefixError

\* PathBuf::push: an absolute argument replaces the buffer.
push(buf, p) == IF is_absolute(p) THEN p ELSE buf \o p

\* PathBuf::pop: the parent; the root and the empty path have none.
pop(p) ==
    IF Len(p) = 0 \/ p = <<RootComp>> THEN p ELSE SubSeq(p, 1, Len(p) - 1)

convert_work_path_to_backup_path(path, work_dir, backup_dir) ==
    LET new_path == strip_prefix(path, work_dir)
    IN  IF ~new_path.ok THEN StripPrefixError
        ELSE Ok(push(backup_dir, new_path.path))

\* convert_backup_path_to_work_path stripping the work root.
convert_backup_path_strips_work(path, work_dir, backup_dir) ==
    LET new_path == strip_prefix(path, work_dir)
    IN  IF ~new_path.ok THEN StripPrefixError
        ELSE Ok(push(work_dir, new_path.path))

convert_backup_path_to_work_path(path, work_dir, backup_dir) ==
    LET new_path == strip_prefix(path, backup_dir)
    IN  IF ~new_path.ok THEN StripPrefixError
        ELSE Ok(push(work_dir, new_path.path))

(***************************************************************************)
(* The file system                                                         *)
(***************************************************************************)
Absent == [kind |-> "none", content |-> 0, mtime |-> 0]
Directory == [kind |-> "dir", content |-> 0, mtime |-> 0]
RegularFile(c, m) == [kind |-> "file", content |-> c, mtime |-> m]

\* What is at path p; the two roots are directories throughout (main checks
\* them, nothing removes them).
At(f, p) ==
    IF p \in Roots THEN Directory
    ELSE IF p \in DOMAIN f THEN f[p]
    ELSE Absent

\* fs::try_exists
try_exists(f, p) == At(f, p).kind # "none"

\* fs::metadata: NotFound for a missing path.
metadata(f, p) ==
    IF At(f, p).kind = "none"
    THEN [ok |-> FALSE, err |-> "NotFound", meta |-> Absent]
    ELSE [ok |-> TRUE, err |-> "none", meta |-> At(f, p)]

\* file_type(path) of main.rs: the kind from fs::metadata.
file_type(f, p) == metadata(f, p)

\* recursive_dir: the walk's entries that are regular files.  The trees hold no
\* ignore files, so the walker's standard filters exclude nothing.
recursive_dir(f, dir) == {p \in FilePaths(dir) : At(f, p).kind = "file"}

SetMax(S) == CHOOSE x \in S : \A y \in S : y <= x

\* dir_modify_time with an empty walk resolved silently to the oldest time.
dir_modify_time_or_zero(f, dir) ==
    LET meta_times == {At(f, p).mtime : p \in recursive_dir(f, dir)}
    IN  [ok |-> TRUE, time |-> SetMax(meta_times \cup {0})]

\* dir_modify_time: the newest modification time of the files of the walk, or
\* the error "Directory is empty".
dir_modify_time(f, dir) ==
    LET meta_times == {At(f, p).mtime : p \in recursive_dir(f, dir)}
    IN  IF meta_times = {}
        THEN [ok |-> FALSE, time |-> 0]
        ELSE [ok |-> TRUE, time |-> SetMax(meta_times)]

\* fs::create_dir_all: every missing directory on the way to dir.
create_dir_all(f, dir) ==
    [p \in DOMAIN f |->
        IF p \in AllDirs /\ starts_with(dir, p) /\ f[p].kind = "none"
        THEN Directory ELSE f[p]]

\* fs::remove_file
remove_file(f, p) ==
    CASE At(f, p).kind = "file" ->
            [ok |-> TRUE, err |-> "none", fs |-> [f EXCEPT ![p] = Absent]]
      [] At(f, p).kind = "none" ->
            [ok |-> FALSE, err |-> "NotFound", fs |-> f]
      [] OTHER ->
            [ok |-> FALSE, err |-> "Other", fs |-> f]

\* fs::remove_dir_all: the directory and everything below it.
remove_dir_all(f, d) ==
    [p \in DOMAIN f |-> IF starts_with(p, d) THEN Absent ELSE f[p]]

\* fs::copy: the source's bytes under the destination's name, written now.
\* NotFound when the source or the destination's directory is missing, another
\* error when the destination is a directory.
copy(f, from, to, now) ==
    IF At(f, from).kind # "file" \/ At(f, pop(to)).kind # "dir"
    THEN [ok |-> FALSE, err |-> "NotFound", fs |-> f]
    ELSE IF At(f, to).kind = "dir"
    THEN [ok |-> FALSE, err |-> "Other", fs |-> f]
    ELSE [ok |-> TRUE, err |-> "none",
          fs |-> [f EXCEPT ![to] = RegularFile(f[from].content, now)]]

\* blake3 of a file's bytes: distinct contents of the model hash differently.
Blake3(c) == 1000 + 37 * c

\* hash_directory: the walk's paths, each as the walk yields it, with its hash.
hash_directory(f, dir) ==
    [p \in recursive_dir(f, dir) |-> Blake3(At(f, p).content)]

(***************************************************************************)
(* copy_to_dst, call by call                                               *)
(***************************************************************************)
\* let dst_path = convert_work_path_to_backup_path(path, work_dir, backup_dir)?
copy_dst_path(path, work_dir, backup_dir) ==
    convert_work_path_to_backup_path(path, work_dir, backup_dir)

\* fs::create_dir_all(&backup_dir).await?
copy_mkdir(f, dst) == create_dir_all(f, pop(dst))

\* fs::remove_file(&dst_path): NotFound is ignored, any other error is returned.
copy_remove(f, dst) ==
    LET r == remove_file(f, dst)
    IN  IF r.ok \/ r.err = "NotFound"
        THEN [ok |-> TRUE, err |-> "none", fs |-> r.fs]
        ELSE [ok |-> FALSE, err |-> "Message", fs |-> f]

\* fs::copy(&path, &dst_path).await.with_context(..)?
copy_bytes(f, path, dst, now) == copy(f, path, dst, now)

\* The whole of copy_to_dst with nothing in between.
copy_to_dst(f, path, work_dir, backup_dir, now) ==
    LET dst == copy_dst_path(path, work_dir, backup_dir)
    IN  IF ~dst.ok THEN [ok |-> FALSE, err |-> "StripPrefix", fs |-> f]
        ELSE LET f1 == copy_mkdir(f, dst.path)
                 r2 == copy_remove(f1, dst.path)
             IN  IF ~r2.ok THEN r2
                 ELSE copy_bytes(r2.fs, path, dst.path, now)

(***************************************************************************)
(* Start-up: main() up to the spawning of the two loops                    *)
(***************************************************************************)
mainv == <<mainpc, source_of_truth, dir_to_init, initq, wrote>>
recv == <<recpc, reclist, reccur, recAfterFlag>>
supv == <<suppc, suplist, supcur, handles, tasks>>

Other(root) == IF root = WorkRoot THEN BackupRoot ELSE WorkRoot

\* The roots under which f and g differ.
ChangedRoots(f, g) ==
    {root \in Roots : \E p \in DOMAIN f : starts_with(p, root) /\ f[p] # g[p]}

\* The comparison letting the work tree win a tie.
work_is_truth_or_equal(work_dir_modify_time, backup_dir_modify_time) ==
    work_dir_modify_time >= backup_dir_modify_time

\* The comparison of the two times the other way round.
work_is_truth_reversed(work_dir_modify_time, backup_dir_modify_time) ==
    work_dir_modify_time < backup_dir_modify_time

\* match work_dir_modify_time > backup_dir_modify_time
work_is_truth(work_dir_modify_time, backup_dir_modify_time) ==
    work_dir_modify_time > backup_dir_modify_time

\* fs::read_dir(dir): the entries directly in dir.
read_dir(f, dir) ==
    {p \in DOMAIN f : Len(p) = Len(dir) + 1 /\ starts_with(p, dir) /\ f[p].kind # "none"}

\* One iteration of the clearing loop on entry path.
clear_entry(f, path) ==
    IF At(f, path).kind = "dir"
    THEN remove_dir_all(f, path)
    ELSE remove_file(f, path).fs

\* The two dir_modify_time calls and the choice of the source of truth.
Resolve ==
    /\ mainpc = "start"
    /\ LET work_dir_modify_time == dir_modify_time(fs, WorkRoot)
           backup_dir_modify_time == dir_modify_time(fs, BackupRoot)
       IN  IF ~work_dir_modify_time.ok \/ ~backup_dir_modify_time.ok
           THEN /\ mainpc' = "failed"
                /\ UNCHANGED <<source_of_truth, dir_to_init>>
           ELSE /\ mainpc' = "clear"
                /\ source_of_truth' =
                      IF work_is_truth(work_dir_modify_time.time,
                                       backup_dir_modify_time.time)
                      THEN WorkRoot ELSE BackupRoot
                /\ dir_to_init' = Other(source_of_truth')
    /\ UNCHANGED <<fs, clock, initq, SHOULD_SHUTDOWN, recv, supv, envBudget, delphase, wrote, tr>>

\* The clearing loop left out: the walk of the source of truth begins at once.
ClearNothing ==
    /\ mainpc = "clear"
    /\ mainpc' = "init"
    /\ initq' = recursive_dir(fs, source_of_truth)
    /\ UNCHANGED <<fs, wrote, clock, source_of_truth, dir_to_init, SHOULD_SHUTDOWN,
                   recv, supv, envBudget, delphase, tr>>

\* while let Ok(Some(file_info)) = read_dir(dir_to_init).next_entry(): the first
\* entry the directory lists (any of them) is removed; with none left, the walk
\* of the source of truth begins.
Clear ==
    /\ mainpc = "clear"
    /\ IF read_dir(fs, dir_to_init) # {}
       THEN /\ \E path \in read_dir(fs, dir_to_init) : fs' = clear_entry(fs, path)
            /\ wrote' = wrote \cup ChangedRoots(fs, fs')
            /\ UNCHANGED <<mainpc, initq>>
       ELSE /\ mainpc' = "init"
            /\ initq' = recursive_dir(fs, source_of_truth)
            /\ UNCHANGED <<fs, wrote>>
    /\ UNCHANGED <<clock, source_of_truth, dir_to_init, SHOULD_SHUTDOWN, recv, supv,
                   envBudget, delphase, tr>>

\* for file_info in recursive_dir(&source_of_truth): a regular file is copied
\* with copy_to_dst, an error ends main.
InitCopy ==
    /\ mainpc = "init"
    /\ IF initq # {}
       THEN \E path \in initq :
              LET r == copy_to_dst(fs, path, source_of_truth, dir_to_init, clock)
              IN  /\ fs' = r.fs
                  /\ wrote' = wrote \cup ChangedRoots(fs, fs')
                  /\ IF file_type(fs, path).ok /\ r.ok
                     THEN mainpc' = "init" /\ initq' = initq \ {path}
                     ELSE mainpc' = "failed" /\ initq' = {}
       ELSE /\ mainpc' = "initialized"
            /\ UNCHANGED <<fs, wrote, initq>>
    /\ UNCHANGED <<clock, source_of_truth, dir_to_init, SHOULD_SHUTDOWN, recv, supv,
                   envBudget, delphase, tr>>

\* The clearing loop run to its end: entries are removed, in the order the
\* directory lists them, until it lists none.
RECURSIVE clear_dir(_, _)
clear_dir(f, dir) ==
    IF read_dir(f, dir) = {} THEN f
    ELSE LET path == CHOOSE p \in read_dir(f, dir) : TRUE
         IN  clear_dir(clear_entry(f, path), dir)

\* The copying loop run to its end over the files of a walk.
RECURSIVE copy_walk(_, _, _, _, _)
copy_walk(f, walk, truth, target, now) ==
    IF walk = {} THEN f
    ELSE LET path == CHOOSE p \in walk : TRUE
         IN  copy_walk(copy_to_dst(f, path, truth, target, now).fs,
                       walk \ {path}, truth, target, now)

\* One whole initialisation of target from truth: the two loops of main.
initialize(f, truth, target, now) ==
    LET cleared == clear_dir(f, target)
    IN  copy_walk(cleared, recursive_dir(cleared, truth), truth, target, now)

\* tokio::task::spawn of delete_files and of copy_files.
Spawn ==
    /\ mainpc = "initialized"
    /\ mainpc' = "running"
    /\ recpc' = "sleep"
    /\ suppc' = "sleep"
    /\ UNCHANGED <<fs, clock, source_of_truth, dir_to_init, initq, SHOULD_SHUTDOWN,
                   reclist, reccur, recAfterFlag, suplist, supcur, handles, tasks,
                   envBudget, delphase, wrote, tr>>

\* ctrl_c() returns and the flag is stored.  main's last five seconds are not
\* modelled: the tasks run on, and the process's exit can only cut a run short.
CtrlC ==
    /\ mainpc = "running"
    /\ mainpc' = "grace"
    /\ SHOULD_SHUTDOWN' = TRUE
    /\ UNCHANGED <<fs, clock, source_of_truth, dir_to_init, initq, recv, supv, envBudget,
                   delphase, wrote, tr>>

\* The tasks run while the process lives.
Alive == mainpc \in {"running", "grace"}

\* A second passes.
Tick ==
    /\ clock < MaxClock
    /\ mainpc # "failed"
    /\ clock' = clock + 1
    /\ UNCHANGED <<fs, mainv, SHOULD_SHUTDOWN, recv, supv, envBudget, delphase, tr>>

(***************************************************************************)
(* The Deletion Reconciler: delete_files                                   *)
(*                                                                         *)
(* A load of SHOULD_SHUTDOWN and the start of a sleep follow the last      *)
(* awaited call of an iteration without a suspension point, so they belong *)
(* to that call's step (here and in the other loops).                      *)
(***************************************************************************)
Phase(ph, from, to) == [p \in DOMAIN ph |-> IF ph[p] = from THEN to ELSE ph[p]]

\* The end of one iteration of the for loop over the walk: the next entry, or,
\* the walk exhausted, tokio::time::sleep(5 s) with no look at SHOULD_SHUTDOWN.
RecContinue(list) ==
    /\ recpc' = IF list = {} THEN "sleep" ELSE "iter"
    /\ reccur' = NoPath
    /\ delphase' = IF list = {} THEN Phase(delphase, 2, 3) ELSE delphase

\* loop { for file_info in recursive_dir(&backup_dir): a scan begins with the
\* walk of the backup tree.
RecScan ==
    /\ Alive /\ recpc = "sleep"
    /\ LET list == recursive_dir(fs, BackupRoot)
       IN  /\ reclist' = list
           /\ recpc' = IF list = {} THEN "sleep" ELSE "iter"
           /\ delphase' = IF list = {} THEN Phase(delphase, 1, 3)
                          ELSE Phase(delphase, 1, 2)
    /\ recAfterFlag' = SHOULD_SHUTDOWN
    /\ UNCHANGED <<fs, clock, mainv, SHOULD_SHUTDOWN, reccur, supv, envBudget, tr>>

\* The next entry and fs::try_exists(&file_info.path()).
RecNext ==
    /\ Alive /\ recpc = "iter"
    /\ \E path \in reclist :
         /\ reclist' = reclist \ {path}
         /\ IF ~try_exists(fs, path)
            THEN RecContinue(reclist')
            ELSE recpc' = "exists_work" /\ reccur' = path /\ UNCHANGED delphase
    /\ UNCHANGED <<fs, clock, mainv, SHOULD_SHUTDOWN, recAfterFlag, supv, envBudget, tr>>

\* The second try_exists looking at the backup path again.
RecExistsBackup ==
    /\ Alive /\ recpc = "exists_work"
    /\ IF ~try_exists(fs, reccur)
       THEN recpc' = "file_type" /\ UNCHANGED <<reccur, delphase>>
       ELSE RecContinue(reclist)
    /\ UNCHANGED <<fs, clock, mainv, SHOULD_SHUTDOWN, reclist, recAfterFlag, supv,
                   envBudget, tr>>

\* convert_backup_path_to_work_path(..).unwrap() and fs::try_exists(&work_dir_path).
RecExistsWork ==
    /\ Alive /\ recpc = "exists_work"
    /\ LET work_dir_path == convert_backup_path_to_work_path(reccur, WorkRoot, BackupRoot)
       IN  IF ~work_dir_path.ok
           THEN recpc' = "panicked" /\ UNCHANGED <<reccur, delphase>>
           ELSE IF ~try_exists(fs, work_dir_path.path)
                THEN recpc' = "file_type" /\ UNCHANGED <<reccur, delphase>>
                ELSE RecContinue(reclist)
    /\ UNCHANGED <<fs, clock, mainv, SHOULD_SHUTDOWN, reclist, recAfterFlag, supv,
                   envBudget, tr>>

\* file_type(file_info.path()).await.unwrap(): a missing path panics the task.
RecFileType ==
    /\ Alive /\ recpc = "file_type"
    /\ LET t == file_type(fs, reccur)
       IN  recpc' = IF ~t.ok THEN "panicked"
                    ELSE IF t.meta.kind = "file" THEN "remove_file"
                    ELSE "remove_dir_all"
    /\ UNCHANGED <<fs, clock, mainv, SHOULD_SHUTDOWN, reclist, reccur, recAfterFlag, supv,
                   envBudget, delphase, tr>>

\* fs::remove_file(..).await.unwrap() or fs::remove_dir_all(..).await.unwrap():
\* a missing path panics the task.
RecRemove ==
    /\ Alive /\ recpc \in {"remove_file", "remove_dir_all"}
    /\ LET r == IF recpc = "remove_file" THEN remove_file(fs, reccur)
                ELSE [ok |-> At(fs, reccur).kind = "dir", err |-> "none",
                      fs |-> remove_dir_all(fs, reccur)]
       IN  IF r.ok
           THEN fs' = r.fs /\ RecContinue(reclist)
           ELSE recpc' = "panicked" /\ UNCHANGED <<fs, reccur, delphase>>
    /\ UNCHANGED <<clock, mainv, SHOULD_SHUTDOWN, reclist, recAfterFlag, supv, envBudget, tr>>

(***************************************************************************)
(* The watcher: spawn_sync_task                                            *)
(***************************************************************************)
Slots == 1..MaxTasks
\* A task: its path, its shared cell and where it is; and two history flags:
\* polled, a poll found nothing to copy since the file last changed; dirty, the
\* file changed since the stat of the poll that is copying it.
\* A new task whose cell holds nothing of the destination.
NewTaskUnseeded(path, modify_time) ==
    [path |-> path, cell |-> 0, pc |-> "stat", polled |-> FALSE, dirty |-> FALSE]

Free == [path |-> NoPath, cell |-> 0, pc |-> "free", polled |-> FALSE, dirty |-> FALSE]
NewTask(path, modify_time) ==
    [path |-> path, cell |-> modify_time, pc |-> "stat", polled |-> FALSE, dirty |-> FALSE]

\* Every task taken for finished.
is_finished_always(task) == TRUE

\* JoinHandle::is_finished
is_finished(task) == task.pc \in {"finished", "panicked"}

\* The destination taken for the path itself.
DstSame(path) == path

\* The destination of a work path (the unwrap of the translation).
Dst(path) == convert_work_path_to_backup_path(path, WorkRoot, BackupRoot).path

\* The comparison taking only a newer time for a change.
time_newer(current_modify_time, cell) == current_modify_time > cell

\* current_modify_time != modify_time.load(..)
time_differs(current_modify_time, cell) == current_modify_time # cell

\* The end of a poll without the look at SHOULD_SHUTDOWN.
WatchEndNoCheck == "stat"

\* The end of a poll: return on SHOULD_SHUTDOWN, else sleep(2 s) and poll again.
WatchEnd == IF SHOULD_SHUTDOWN THEN "finished" ELSE "stat"

\* fs::metadata(path) and the comparison with the shared cell, which is stored
\* before the copy.  NotFound ends the task.
WatchStat(t) ==
    /\ Alive /\ tasks[t].pc = "stat"
    /\ LET m == metadata(fs, tasks[t].path)
       IN  IF ~m.ok
           THEN tasks' = [tasks EXCEPT ![t].pc = "finished", ![t].polled = FALSE]
           ELSE IF time_differs(m.meta.mtime, tasks[t].cell)
                THEN tasks' = [tasks EXCEPT ![t].pc = "rm", ![t].cell = m.meta.mtime,
                                          ![t].polled = FALSE]
                ELSE tasks' = [tasks EXCEPT ![t].pc = WatchEnd,
                                          ![t].polled = (WatchEnd = "stat")]
    /\ UNCHANGED <<fs, clock, mainv, SHOULD_SHUTDOWN, recv, suppc, suplist, supcur,
                   handles, envBudget, delphase, tr>>

\* copy_to_dst up to fs::remove_file.  fs::create_dir_all goes with it: no step
\* of a task removes a directory of the backup tree or looks for one.  An error
\* of remove_file is an anyhow message, which the watcher's downcast to
\* io::Error does not match, so the poll ends as if nothing had happened.
WatchRemove(t) ==
    /\ Alive /\ tasks[t].pc = "rm"
    /\ LET r == copy_remove(copy_mkdir(fs, Dst(tasks[t].path)), Dst(tasks[t].path))
       IN  /\ fs' = r.fs
           /\ tasks' = [tasks EXCEPT ![t].pc = IF r.ok THEN "cp" ELSE WatchEnd,
                                     ![t].dirty = IF r.ok THEN @ ELSE FALSE]
    /\ UNCHANGED <<clock, mainv, SHOULD_SHUTDOWN, recv, suppc, suplist, supcur, handles,
                   envBudget, delphase, tr>>

\* copy_to_dst: fs::copy; NotFound ends the task, another error panics it.
WatchCopy(t) ==
    /\ Alive /\ tasks[t].pc = "cp"
    /\ LET r == copy_bytes(fs, tasks[t].path, Dst(tasks[t].path), clock)
       IN  /\ fs' = r.fs
           /\ tasks' = [tasks EXCEPT ![t].pc =
                           IF r.ok THEN WatchEnd
                           ELSE IF r.err = "NotFound" THEN "finished" ELSE "panicked",
                                     ![t].dirty = FALSE]
    /\ UNCHANGED <<clock, mainv, SHOULD_SHUTDOWN, recv, suppc, suplist, supcur, handles,
                   envBudget, delphase, tr>>

(***************************************************************************)
(* The Supervisor: copy_files                                              *)
(***************************************************************************)
\* The end of one iteration of the for loop over the walk: the next entry, or,
\* the walk exhausted, return on SHOULD_SHUTDOWN, else sleep(5 s).
SupContinue(list) ==
    /\ suppc' = IF list # {} THEN "iter"
                ELSE IF SHOULD_SHUTDOWN THEN "returned" ELSE "sleep"
    /\ supcur' = NoPath

\* loop { for file_info in recursive_dir(&work_dir): a scan begins with the walk
\* of the work tree.
SupScan ==
    /\ Alive /\ suppc = "sleep"
    /\ suplist' = recursive_dir(fs, WorkRoot)
    /\ SupContinue(suplist')
    /\ UNCHANGED <<fs, clock, mainv, SHOULD_SHUTDOWN, recv, handles, tasks, envBudget,
                   delphase, tr>>

\* The next entry: file_type(..).await.unwrap(), which panics on a missing
\* path, and handles.get(path): a finished task's entry is removed (the JoinHandle
\* is dropped, and the slot of a task that has ended is free again), a running
\* task's entry is left, and a path without entry goes on to fs::metadata.
SupNext ==
    /\ Alive /\ suppc = "iter"
    /\ \E path \in suplist :
         /\ suplist' = suplist \ {path}
         /\ LET t == file_type(fs, path)
            IN  IF ~t.ok
                THEN /\ suppc' = "panicked"
                     /\ UNCHANGED <<supcur, handles, tasks>>
                ELSE IF t.meta.kind # "file"
                THEN /\ SupContinue(suplist')
                     /\ UNCHANGED <<handles, tasks>>
                ELSE IF handles[path] # 0
                THEN /\ IF is_finished(tasks[handles[path]])
                        THEN /\ handles' = [handles EXCEPT ![path] = 0]
                             /\ tasks' = [tasks EXCEPT ![handles[path]] =
                                             IF @.pc \in {"finished", "panicked"}
                                             THEN Free ELSE @]
                        ELSE UNCHANGED <<handles, tasks>>
                     /\ SupContinue(suplist')
                ELSE /\ suppc' = "metadata"
                     /\ supcur' = path
                     /\ UNCHANGED <<handles, tasks>>
    /\ UNCHANGED <<fs, clock, mainv, SHOULD_SHUTDOWN, recv, envBudget, delphase, tr>>

\* fs::metadata(backup_path): with a destination, a watcher is spawned whose
\* cell holds the destination's modification time, and its handle inserted;
\* without (NotFound), copy_to_dst.
SupMetadata ==
    /\ Alive /\ suppc = "metadata"
    /\ LET backup_path == convert_work_path_to_backup_path(supcur, WorkRoot, BackupRoot)
           m == metadata(fs, backup_path.path)
       IN  IF ~backup_path.ok
           THEN /\ suppc' = "panicked"
                /\ UNCHANGED <<supcur, handles, tasks>>
           ELSE IF m.ok
           THEN /\ \E t \in Slots :
                     /\ tasks[t] = Free
                     /\ \A u \in Slots : tasks[u] = Free => t <= u
                     /\ tasks' = [tasks EXCEPT ![t] = NewTask(supcur, m.meta.mtime)]
                     /\ handles' = [handles EXCEPT ![supcur] = t]
                /\ SupContinue(suplist)
           ELSE /\ suppc' = "rm"
                /\ UNCHANGED <<supcur, handles, tasks>>
    /\ UNCHANGED <<fs, clock, mainv, SHOULD_SHUTDOWN, recv, suplist, envBudget, delphase, tr>>

\* copy_to_dst up to fs::remove_file (with fs::create_dir_all, as in the
\* watcher).  The Supervisor drops copy_to_dst's result.
SupRemove ==
    /\ Alive /\ suppc = "rm"
    /\ LET r == copy_remove(copy_mkdir(fs, Dst(supcur)), Dst(supcur))
       IN  /\ fs' = r.fs
           /\ IF r.ok
              THEN suppc' = "cp" /\ UNCHANGED supcur
              ELSE SupContinue(suplist)
    /\ UNCHANGED <<clock, mainv, SHOULD_SHUTDOWN, recv, suplist, handles, tasks, envBudget,
                   delphase, tr>>

\* copy_to_dst: fs::copy.  The Supervisor drops copy_to_dst's result.
SupCopy ==
    /\ Alive /\ suppc = "cp"
    /\ fs' = copy_bytes(fs, supcur, Dst(supcur), clock).fs
    /\ SupContinue(suplist)
    /\ UNCHANGED <<clock, mainv, SHOULD_SHUTDOWN, recv, suplist, handles, tasks, envBudget,
                   delphase, tr>>

(***************************************************************************)
(* The environment: whoever works in the work tree                         *)
(***************************************************************************)
\* The watchers of path learn that the file changed: under the copy of those
\* that are copying, and since the last poll of the others.
Touch(ts, path) ==
    [t \in DOMAIN ts |->
        IF ts[t].path = path
        THEN [ts[t] EXCEPT !.dirty = (ts[t].pc \in {"rm", "cp"}), !.polled = FALSE]
        ELSE ts[t]]

\* A work file is created or rewritten with other content, at the clock's time.
\* The environment changes a file at most once in a second, so every change
\* gives the file a modification time it did not have before.
EnvWrite ==
    /\ Alive /\ envBudget > 0
    /\ \E path \in FilePaths(WorkRoot), c \in Contents :
         /\ At(fs, path).content # c
         /\ At(fs, path).mtime < clock
         /\ fs' = [create_dir_all(fs, pop(path)) EXCEPT ![path] = RegularFile(c, clock)]
         /\ delphase' = [delphase EXCEPT ![path] = 0]
         /\ tasks' = Touch(tasks, path)
    /\ envBudget' = envBudget - 1
    /\ UNCHANGED <<clock, mainv, SHOULD_SHUTDOWN, recv, suppc, suplist, supcur, handles, tr>>

\* A work file is deleted.
EnvDelete ==
    /\ Alive /\ envBudget > 0
    /\ \E path \in recursive_dir(fs, WorkRoot) :
         /\ At(fs, path).mtime < clock
         /\ fs' = [fs EXCEPT ![path] = Absent]
         /\ delphase' = [delphase EXCEPT ![path] = 1]
         /\ tasks' = Touch(tasks, path)
    /\ envBudget' = envBudget - 1
    /\ UNCHANGED <<clock, mainv, SHOULD_SHUTDOWN, recv, suppc, suplist, supcur, handles, tr>>

(***************************************************************************)
(* The system                                                              *)
(***************************************************************************)
InitTimes == 1..InitClock

EntrySet ==
    {Absent, Directory} \cup {RegularFile(c, m) : c \in Contents, m \in InitTimes}

\* A file system as main can find it: files where files go, directories where
\* directories go, and no file without its directory.
WellFormed(f) ==
    /\ \A p \in AllFiles : f[p].kind # "dir"
    /\ \A p \in AllDirs : f[p].kind # "file"
    /\ \A p \in AllFiles : f[p].kind = "file" => At(f, pop(p)).kind = "dir"

FileSystems == {f \in [AllPaths -> EntrySet] : WellFormed(f)}

NoTr == [pc |-> "off", dir |-> "none", path |-> NoPath, work_dir |-> NoPath,
         backup_dir |-> NoPath, there |-> StripPrefixError, back |-> StripPrefixError]

\* The state main() starts in, whatever the file system and the environment.
Boot ==
    /\ clock = InitClock
    /\ mainpc = "start"
    /\ source_of_truth = NoPath
    /\ dir_to_init = NoPath
    /\ initq = {}
    /\ SHOULD_SHUTDOWN = FALSE
    /\ recpc = "unspawned"
    /\ reclist = {}
    /\ reccur = NoPath
    /\ recAfterFlag = FALSE
    /\ suppc = "unspawned"
    /\ suplist = {}
    /\ supcur = NoPath
    /\ handles = [p \in FilePaths(WorkRoot) |-> 0]
    /\ tasks = [t \in Slots |-> Free]
    /\ wrote = {}
    /\ delphase = [p \in FilePaths(WorkRoot) |-> 0]

(***************************************************************************)
(* Start-up alone, from every file system of the bounds                    *)
(***************************************************************************)
StartInit ==
    /\ fs \in FileSystems
    /\ envBudget = 0
    /\ tr = NoTr
    /\ Boot

StartNext == Resolve \/ Clear \/ InitCopy \/ Spawn \/ Tick

SpecStartup == StartInit /\ [][StartNext]_vars

(***************************************************************************)
(* The running system: start-up from two file systems, then the loops, the *)
(* watchers and the environment                                            *)
(***************************************************************************)
\* A tree of the given root with file a and, in directory d, file b.
Tree(root, a, b) ==
    [p \in FilePaths(root) \cup DirPaths(root) |->
        IF p = root \o <<"a">> THEN a
        ELSE IF p = root \o <<"d", "b">> THEN b
        ELSE IF b.kind = "file" THEN Directory ELSE Absent]

Both(w, b) == [p \in AllPaths |-> IF p \in DOMAIN w THEN w[p] ELSE b[p]]

\* The work tree is the newer one: the backup tree is initialised from it.
FsWorkNewer ==
    Both(Tree(WorkRoot, RegularFile(2, 1), RegularFile(1, InitClock)),
         Tree(BackupRoot, RegularFile(1, 1), Absent))

\* The backup tree is the newer one: the work tree is initialised from it.
FsBackupNewer ==
    Both(Tree(WorkRoot, RegularFile(2, 1), Absent),
         Tree(BackupRoot, RegularFile(1, InitClock), RegularFile(2, 1)))

Init ==
    /\ fs \in {FsWorkNewer, FsBackupNewer}
    /\ envBudget = EnvBudget
    /\ tr = NoTr
    /\ Boot

Next ==
    \/ Resolve \/ Clear \/ InitCopy \/ Spawn \/ Tick
    \/ RecScan \/ RecNext \/ RecExistsWork \/ RecFileType \/ RecRemove
    \/ SupScan \/ SupNext \/ SupMetadata \/ SupRemove \/ SupCopy
    \/ \E t \in Slots : WatchStat(t)
    \/ \E t \in Slots : WatchRemove(t)
    \/ \E t \in Slots : WatchCopy(t)
    \/ EnvWrite \/ EnvDelete

Spec == Init /\ [][Next]_vars

(***************************************************************************)
(* The running system with an environment that can change a file twice:    *)
(* delete it and create it again                                           *)
(***************************************************************************)
RecreateInit ==
    /\ fs \in {FsWorkNewer, FsBackupNewer}
    /\ envBudget = EnvBudget + 1
    /\ tr = NoTr
    /\ Boot

SpecRecreate == RecreateInit /\ [][Next]_vars

(***************************************************************************)
(* The running system with a destination that cannot be removed            *)
(***************************************************************************)
\* Someone makes a directory where the mirror of a work file goes (in place of
\* the mirror, if there is one): fs::remove_file of that path then fails with
\* an error other than NotFound.
EnvBlock ==
    /\ Alive /\ envBudget > 0
    /\ \E path \in FilePaths(WorkRoot) :
         /\ At(fs, Dst(path)).kind # "dir"
         /\ fs' = [create_dir_all(fs, pop(Dst(path))) EXCEPT ![Dst(path)] = Directory]
    /\ envBudget' = envBudget - 1
    /\ UNCHANGED <<clock, mainv, SHOULD_SHUTDOWN, recv, supv, delphase, tr>>

BlockNext == Next \/ EnvBlock

SpecBlock == Init /\ [][BlockNext]_vars

(***************************************************************************)
(* The running system with the interrupt                                   *)
(***************************************************************************)
ShutdownNext == Next \/ CtrlC

SpecShutdown == Init /\ [][ShutdownNext]_vars

(***************************************************************************)
(* The Path Translator alone, on every path and pair of roots of the bounds *)
(***************************************************************************)
\* The longest path given to the translators, in named components.
MaxPathLen == 3
Names == {"x", "y"}

NamesUpTo(n) == UNION {[1..k -> Names] : k \in 0..n}

\* Relative and absolute paths of at most n named components.
PathsUpTo(n) == NamesUpTo(n) \cup {<<RootComp>> \o q : q \in NamesUpTo(n)}

TrPaths == PathsUpTo(MaxPathLen)

\* The roots: main returns unless both are directories, which the empty path
\* is not.
TrRoots == PathsUpTo(MaxPathLen - 1) \ {NoPath}

TrInit ==
    /\ fs = FsWorkNewer
    /\ envBudget = 0
    /\ Boot
    /\ \E dir \in {"work_to_backup", "backup_to_work"}, path \in TrPaths,
          work_dir \in TrRoots, backup_dir \in TrRoots :
         tr = [NoTr EXCEPT !.pc = "in", !.dir = dir, !.path = path,
                           !.work_dir = work_dir, !.backup_dir = backup_dir]

\* The path is translated to the other root.
TrThere ==
    /\ tr.pc = "in"
    /\ tr' = [tr EXCEPT
                !.pc = "there",
                !.there = IF tr.dir = "work_to_backup"
                          THEN convert_work_path_to_backup_path(
                                   tr.path, tr.work_dir, tr.backup_dir)
                          ELSE convert_backup_path_to_work_path(
                                   tr.path, tr.work_dir, tr.backup_dir)]
    /\ UNCHANGED sysvars

\* The translation is translated back.
TrBack ==
    /\ tr.pc = "there" /\ tr.there.ok
    /\ tr' = [tr EXCEPT
                !.pc = "back",
                !.back = IF tr.dir = "work_to_backup"
                         THEN convert_backup_path_to_work_path(
                                  tr.there.path, tr.work_dir, tr.backup_dir)
                         ELSE convert_work_path_to_backup_path(
                                  tr.there.path, tr.work_dir, tr.backup_dir)]
    /\ UNCHANGED sysvars

TrNext == TrThere \/ TrBack

SpecTranslate == TrInit /\ [][TrNext]_vars

(***************************************************************************)
(* Properties of start-up (SpecStartup)                                    *)
(***************************************************************************)
\* The files of a tree by their path relative to the root, with their content.
RelContent(f, root) ==
    {<<strip_prefix(p, root).path, At(f, p).content>> : p \in recursive_dir(f, root)}

\* Start-up has not changed the file system yet, the work tree has a regular
\* file and the backup tree has none.
OnlyBackupEmpty ==
    /\ wrote = {}
    /\ recursive_dir(fs, WorkRoot) # {}
    /\ recursive_dir(fs, BackupRoot) = {}

\* C4: when the work tree holds a regular file and the backup tree holds none,
\* start-up does not fail: it takes the work tree as the source of truth and
\* does not clear it.
C4_EmptyBackupWorkWins ==
    OnlyBackupEmpty =>
        /\ mainpc # "failed"
        /\ source_of_truth \in {NoPath, WorkRoot}

\* C5: with a root that holds no regular file, main does not get past the two
\* dir_modify_time calls; and when it has failed there, a root holds no regular
\* file, nothing under either root has been changed and neither delete_files
\* nor copy_files has been spawned (nor any watcher).
C5_EmptyTreeFails ==
    /\ (/\ wrote = {}
        /\ \E root \in Roots : recursive_dir(fs, root) = {})
           => mainpc \in {"start", "failed"}
    /\ mainpc = "failed" =>
          /\ \E root \in Roots : recursive_dir(fs, root) = {}
          /\ wrote = {}
          /\ source_of_truth = NoPath /\ dir_to_init = NoPath
          /\ recpc = "unspawned" /\ suppc = "unspawned"
          /\ \A t \in Slots : tasks[t] = Free

\* Start-up has failed on an empty backup tree next to a work tree with files.
C5_Witness ==
    /\ mainpc = "failed"
    /\ recursive_dir(fs, WorkRoot) # {}
    /\ recursive_dir(fs, BackupRoot) = {}

C7_InitializerPostcondition ==
    mainpc = "initialized" =>
        /\ recursive_dir(fs, dir_to_init) =
              {copy_dst_path(p, source_of_truth, dir_to_init).path :
                  p \in recursive_dir(fs, source_of_truth)}
        /\ RelContent(fs, dir_to_init) = RelContent(fs, source_of_truth)
        /\ RelContent(initialize(fs, source_of_truth, dir_to_init, clock), dir_to_init)
              = RelContent(fs, dir_to_init)

\* The initialisation has completed with a single file in the initialised
\* tree, a second later than it started.
C7_Witness ==
    /\ mainpc = "initialized"
    /\ clock > InitClock
    /\ Cardinality(recursive_dir(fs, dir_to_init)) = 1

\* Start-up has not changed the file system yet and the two trees hold the
\* same relative paths with the same contents.
SameTrees ==
    /\ wrote = {}
    /\ RelContent(fs, WorkRoot) = RelContent(fs, BackupRoot)

\* C8: when the two trees hold the same relative paths with the same contents,
\* hash_directory of the one root equals hash_directory of the other, and
\* start-up neither clears nor copies.
C8_FingerprintSkip ==
    SameTrees =>
        /\ hash_directory(fs, WorkRoot) = hash_directory(fs, BackupRoot)
        /\ mainpc \notin {"clear", "init"}

\* Start-up has chosen and not changed the file system yet, and the newest
\* modification times of the two trees are equal.
Tie ==
    /\ mainpc = "clear" /\ wrote = {}
    /\ dir_modify_time(fs, WorkRoot).ok /\ dir_modify_time(fs, BackupRoot).ok
    /\ dir_modify_time(fs, WorkRoot).time = dir_modify_time(fs, BackupRoot).time

\* C20: when both trees hold regular files and their newest modification times
\* are equal, the backup tree is the source of truth and the work tree the one
\* to initialise; and whenever the backup tree is the source of truth, start-up
\* changes the work tree and nothing else.
C20_TieBreak ==
    /\ Tie => (source_of_truth = BackupRoot /\ dir_to_init = WorkRoot)
    /\ source_of_truth = BackupRoot =>
          /\ wrote \subseteq {WorkRoot}
          /\ mainpc \in {"init", "initialized"} => wrote = {WorkRoot}

\* The two trees tie with two files each and the backup tree has been chosen.
C20_Witness ==
    /\ Tie
    /\ source_of_truth = BackupRoot
    /\ Cardinality(recursive_dir(fs, WorkRoot)) = 2
    /\ Cardinality(recursive_dir(fs, BackupRoot)) = 2

(***************************************************************************)
(* Properties of the Path Translator (SpecTranslate)                       *)
(***************************************************************************)
\* The root the harness's path is translated from.
TrFrom == IF tr.dir = "work_to_backup" THEN tr.work_dir ELSE tr.backup_dir

\* C9: a path under the root it is translated from is translated, and the
\* translation translated back is the path; a path not under that root gives
\* an error.  In both directions, for all roots.
C9_TranslatorRoundTrip ==
    /\ tr.pc \in {"there", "back"} => (tr.there.ok <=> starts_with(tr.path, TrFrom))
    /\ tr.pc = "back" => (tr.back.ok /\ tr.back.path = tr.path)

\* A path strictly below its root has been translated to another root, of
\* another kind, and back.
C9_Witness ==
    /\ tr.pc = "back"
    /\ tr.back = Ok(tr.path)
    /\ Len(tr.path) > Len(TrFrom)
    /\ is_absolute(tr.work_dir) # is_absolute(tr.backup_dir)

(***************************************************************************)
(* The running system, every loop and task scheduled fairly                *)
(***************************************************************************)
\* main reaches its spawns, a sleep of a loop or of a watcher ends, and an
\* awaited call returns: tokio runs every task that is ready.  The environment
\* and the clock are under no obligation.
Fairness ==
    /\ WF_vars(Resolve \/ Clear \/ InitCopy \/ Spawn)
    /\ WF_vars(RecScan \/ RecNext \/ RecExistsWork \/ RecFileType \/ RecRemove)
    /\ WF_vars(SupScan \/ SupNext \/ SupMetadata \/ SupRemove \/ SupCopy)
    /\ \A t \in Slots : WF_vars(WatchStat(t) \/ WatchRemove(t) \/ WatchCopy(t))

FairSpec == Spec /\ Fairness

\* The same, main finding a backup tree that is the newer one and holds, next to
\* the file a, a directory d with nothing in it, which the work tree has not.
FsOrphanDir ==
    [FsBackupNewer EXCEPT ![BackupRoot \o <<"d", "b">>] = Absent,
                          ![BackupRoot \o <<"d">>] = Directory]

DirInit ==
    /\ fs = FsOrphanDir
    /\ envBudget = EnvBudget
    /\ tr = NoTr
    /\ Boot

SpecDirs == DirInit /\ [][Next]_vars /\ Fairness

\* The same with the interrupt, which is under no obligation either.
FairShutdown == DirInit /\ [][ShutdownNext]_vars /\ Fairness

(***************************************************************************)
(* Properties of the running system                                        *)
(***************************************************************************)
\* The regular files under the backup root are the translated regular files
\* under the work root, with the same contents.
InSync == RelContent(fs, BackupRoot) = RelContent(fs, WorkRoot)

\* C1: with the flag unset and every loop and task scheduled fairly, once the
\* environment has stopped changing the work tree (its budget is finite, and
\* each of its changes gave the file a modification time it did not have) the
\* system reaches and stays in a state where the backup tree is in sync with
\* the work tree.
C1_Convergence == <>[]InSync

\* C2: a running watcher's poll ends without a copy only when the file's
\* modification time is the one in the watcher's cell; and a poll that copies,
\* the file not changing under it, ends with the mirror a regular file of the
\* work file's content.
C2_ChangePropagation ==
    /\ [](\A t \in Slots :
            (/\ tasks[t].pc = "stat"
             /\ tasks[t].polled
             /\ metadata(fs, tasks[t].path).ok)
                => tasks[t].cell = At(fs, tasks[t].path).mtime)
    /\ [][\A t \in Slots :
            (/\ tasks[t].pc \in {"rm", "cp"}
             /\ ~tasks[t].dirty
             /\ tasks'[t].pc \notin {"rm", "cp"})
                => /\ tasks'[t].pc = "stat"
                   /\ At(fs', tasks[t].path).kind = "file"
                   /\ At(fs', Dst(tasks[t].path)).kind = "file"
                   /\ At(fs', Dst(tasks[t].path)).content
                         = At(fs', tasks[t].path).content]_vars

\* The environment has rewritten a file of the work tree the backup tree was
\* initialised from, and the file's watcher has taken the new modification time
\* into its cell and copied the new content to the mirror.
C2_Witness ==
    /\ source_of_truth = WorkRoot
    /\ envBudget < EnvBudget
    /\ \E t \in Slots :
         /\ tasks[t].pc = "stat"
         /\ At(fs, tasks[t].path).kind = "file"
         /\ At(fs, tasks[t].path).mtime > InitClock
         /\ tasks[t].cell = At(fs, tasks[t].path).mtime
         /\ At(fs, Dst(tasks[t].path)).kind = "file"
         /\ At(fs, Dst(tasks[t].path)).content = At(fs, tasks[t].path).content

\* C3: once a scan of delete_files that began after a work file's deletion has
\* visited every entry of its walk, the file not re-created, the file's backup
\* counterpart does not exist, whatever the Supervisor and the watchers do.
C3_DeletionPropagation ==
    \A p \in FilePaths(WorkRoot) : delphase[p] = 3 => ~try_exists(fs, Dst(p))

\* The scan after a deletion is complete, the Reconciler has not panicked, and
\* the deleted file's watcher has not ended yet.
C3_Witness ==
    \E p \in FilePaths(WorkRoot) :
        /\ delphase[p] = 3
        /\ ~try_exists(fs, p)
        /\ recpc = "sleep"
        /\ handles[p] # 0
        /\ tasks[handles[p]].pc = "stat"

\* C10: in a scan of delete_files that began with SHOULD_SHUTDOWN set, no
\* entry of the backup tree is removed.
C10_StopsOnShutdown ==
    [][(/\ recAfterFlag
        /\ recpc \in {"remove_file", "remove_dir_all"}
        /\ recpc' \notin {"remove_file", "remove_dir_all"})
           => fs' = fs]_vars

\* The watchers of a path that have not ended.
Unfinished(p) ==
    {t \in Slots : tasks[t].path = p /\ tasks[t].pc \notin {"free", "finished", "panicked"}}

\* C12: no work path ever has two watchers that have not ended; a watcher is
\* spawned only for a path without entry in handles, and gets the entry; and
\* an entry is removed only when its task has ended.
C12_OneWatcherPerFile ==
    /\ [](\A p \in FilePaths(WorkRoot) : Cardinality(Unfinished(p)) <= 1)
    /\ [][/\ \A t \in Slots :
              (tasks[t].pc = "free" /\ tasks'[t].pc # "free")
                 => /\ handles[tasks'[t].path] = 0
                    /\ handles'[tasks'[t].path] = t
          /\ \A p \in FilePaths(WorkRoot) :
              (handles[p] # 0 /\ handles'[p] # handles[p])
                 => /\ tasks[handles[p]].pc \in {"finished", "panicked"}
                    /\ handles'[p] = 0]_vars

\* Each of the two files has a watcher of its own that has not ended and has
\* polled, and the Supervisor is in the middle of a scan.
C12_Witness ==
    /\ \A p \in FilePaths(WorkRoot) : Cardinality(Unfinished(p)) = 1
    /\ \A p \in FilePaths(WorkRoot) : handles[p] \in Unfinished(p)
    /\ \A t \in Slots : tasks[t].polled
    /\ suppc = "iter" /\ Cardinality(suplist) = 1

\* C17: when copy_files has met a regular work file without entry in handles:
\* with the destination there, it copies nothing, fills one free slot with a
\* watcher of the file whose cell holds the destination's modification time,
\* and enters that slot under the file's path; with the destination missing,
\* it spawns nothing and enters nothing while it makes its one copy_to_dst
\* call, which writes under the destination only, and then goes on to the
\* next entry of the walk.
C17_FirstObservation ==
    /\ [](supcur # NoPath => (supcur \notin suplist /\ handles[supcur] = 0))
    /\ [][/\ (suppc = "metadata" /\ suppc' # "metadata" /\ try_exists(fs, Dst(supcur)))
              => /\ fs' = fs
                 /\ suppc' \notin {"rm", "cp", "panicked"}
                 /\ handles'[supcur] \in Slots
                 /\ tasks[handles'[supcur]].pc = "free"
                 /\ tasks'[handles'[supcur]].path = supcur
                 /\ tasks'[handles'[supcur]].pc = "stat"
                 /\ tasks'[handles'[supcur]].cell = At(fs, Dst(supcur)).mtime
                 /\ \A t \in Slots \ {handles'[supcur]} : tasks'[t] = tasks[t]
                 /\ \A p \in FilePaths(WorkRoot) \ {supcur} : handles'[p] = handles[p]
          /\ (suppc = "metadata" /\ suppc' # "metadata" /\ ~try_exists(fs, Dst(supcur)))
              => /\ suppc' = "rm"
                 /\ supcur' = supcur
                 /\ <<fs, handles, tasks>>' = <<fs, handles, tasks>>
          /\ (suppc \in {"rm", "cp"} /\ suppc' # suppc)
              => /\ <<handles, tasks>>' = <<handles, tasks>>
                 /\ \A p \in AllFiles \ {Dst(supcur)} : fs'[p] = fs[p]
                 /\ (suppc = "rm") => (suppc' = "cp")
                 /\ (suppc = "cp") =>
                       /\ suppc' \in {"iter", "sleep"}
                       /\ supcur' = NoPath
                       /\ (At(fs, supcur).kind = "file") =>
                             (At(fs', Dst(supcur)) = RegularFile(At(fs, supcur).content, clock))
         ]_vars

\* A watcher spawned with the cell of its destination's modification time,
\* which is not its file's, has not polled yet, while copy_files is about to
\* copy the other file, whose destination is missing.
C17_Witness ==
    /\ suppc = "cp"
    /\ \E t \in Slots :
         /\ tasks[t].pc = "stat" /\ ~tasks[t].polled
         /\ tasks[t].path # supcur
         /\ handles[tasks[t].path] = t
         /\ tasks[t].cell = At(fs, Dst(tasks[t].path)).mtime
         /\ tasks[t].cell # At(fs, tasks[t].path).mtime

\* C18: once main has spawned the loops, a step that is not the environment's
\* (the Supervisor's, a watcher's, the Reconciler's) leaves every file and
\* directory under the work root as it is: what copy_to_dst and delete_files
\* write and remove is under the backup root.
C18_WorkTreeUntouched ==
    [][(Alive /\ envBudget' = envBudget)
          => \A p \in FilePaths(WorkRoot) \cup DirPaths(WorkRoot) : fs'[p] = fs[p]]_vars

\* The Reconciler has removed the mirror of a deleted file, and a watcher has
\* removed its destination and is about to copy.
C18_Witness ==
    /\ \E p \in FilePaths(WorkRoot) : delphase[p] = 3
    /\ \E t \in Slots :
         /\ tasks[t].pc = "cp"
         /\ At(fs, tasks[t].path).kind = "file"
         /\ ~try_exists(fs, Dst(tasks[t].path))

\* C14: neither copy_files nor delete_files ends abnormally when a file it has
\* enumerated is gone by the time it looks at it or removes it.
C14_NotFoundTolerated ==
    /\ suppc # "panicked"
    /\ recpc # "panicked"

\* C13: a watcher whose copy_to_dst fails with anything but NotFound, the
\* removal of the destination included, ends panicked: it does not go back to
\* polling.
C13_CopyFailuresFatal ==
    [][\A t \in Slots :
          LET dst == Dst(tasks[t].path)
              r == IF tasks[t].pc = "rm"
                   THEN copy_remove(copy_mkdir(fs, dst), dst)
                   ELSE copy_bytes(fs, tasks[t].path, dst, clock)
          IN  (/\ tasks[t].pc \in {"rm", "cp"}
               /\ tasks'[t].pc # tasks[t].pc
               /\ ~r.ok /\ r.err # "NotFound")
                 => tasks'[t].pc = "panicked"]_vars

\* C19: delete_files removes an entry of the backup tree only in a state where
\* the entry's translated work path does not exist, whatever the environment,
\* the Supervisor and the watchers did since the Reconciler looked.
C19_NoLiveMirrorDeleted ==
    [][(/\ recpc \in {"remove_file", "remove_dir_all"}
        /\ recpc' # recpc
        /\ fs' # fs)
          => ~try_exists(fs, convert_backup_path_to_work_path(reccur, WorkRoot,
                                                              BackupRoot).path)]_vars

\* C15: an entry of the Supervisor's handle map whose task has finished (it
\* returned after the work file vanished, or it panicked) is removed from the
\* map by a scan of a Supervisor that keeps running, whether or not the file is
\* in the work tree.
C15_FinishedReaped ==
    \A path \in FilePaths(WorkRoot) :
        (handles[path] # 0 /\ is_finished(tasks[handles[path]]))
            ~> (handles[path] = 0 \/ suppc = "panicked")

\* A directory of the backup tree whose translated path is not in the work tree.
OrphanDir(d) ==
    /\ At(fs, d).kind = "dir"
    /\ ~try_exists(fs, convert_backup_path_to_work_path(d, WorkRoot, BackupRoot).path)

\* C16: a Reconciler that keeps running removes every directory of the backup
\* tree, one without a regular file in it included, whose translated path does
\* not exist under the work root: from some point on the backup tree holds no
\* such directory.
C16_DirectoriesReconciled ==
    <>[](recpc = "panicked" \/ \A d \in DirPaths(BackupRoot) : ~OrphanDir(d))

\* Every watcher has ended: no slot holds a task that is polling or copying.
AllWatchersEnded == \A t \in Slots : tasks[t].pc \notin {"stat", "rm", "cp"}

====
